---------------------------- MODULE Spec2Model ----------------------------
(***************************************************************************)
(* A model of saxskit's fitting core (saxskit/saxs_fit.py): the parameter  *)
(* schema, the asymmetric merge update_params, the flat lmfit              *)
(* representation, the control flow of SaxsFitter.fit() and of             *)
(* fit_intensity_params(), the peak seeder estimate_peak_params(), and     *)
(* two fit() calls whose steps interleave over a heap of list objects.     *)
(*                                                                         *)
(* Representation.                                                         *)
(*  - A float is an integer number of micro-units (1.0 is 1000000), so     *)
(*    that the defaults and limits of the source keep their exact order.   *)
(*    Python's True and False are the numbers 1.0 and 0.0 (True == 1).     *)
(*  - An OrderedDict is a sequence of <<key, list>> pairs in insertion     *)
(*    order.                                                               *)
(*  - An optional value (a count that may be None, a bound that may be     *)
(*    None) is <<>> for None and <<x>> for x.                              *)
(*  - An optional dict argument is [none |-> TRUE/FALSE, d |-> dict].      *)
(***************************************************************************)
EXTENDS Integers, Sequences, FiniteSets, TLC

VARIABLES
    populations,  \* self.populations: population key -> optional count
    spectrum,     \* self.q, self.I, self.idx_fit, self.logI, self.dI
    pc,           \* position of the running call
    call,         \* the public method called, and a copy of what it was passed
    args,         \* the caller's argument objects of the running fit() call
    params,       \* fit(): the local `params` after the merge
    obj_init,     \* fit(): the local `obj_init`, <<>> before it is computed
    lmf_params,   \* fit(): the flat vector handed to the optimizer
    lmf_res,      \* fit(): the optimizer's result, [params, success]
    ret,          \* what the finished call returned or raised
    events,       \* the collaborators invoked by the running call, in order
    up_base,      \* update_params called directly: p_old as passed
    up_new,       \* update_params called directly: p_new as passed
    up_ret,       \* update_params called directly: [err, d]
    seed_in,      \* estimate_peak_params: the params argument as passed
    seed_obj,     \* estimate_peak_params: the caller's params object afterwards
    pk_idx,       \* estimate_peak_params: candidate indices of the window scan
    pk_conf,      \* estimate_peak_params: their confidences
    conf_idx,     \* estimate_peak_params: the candidates, best first
    seed_ret,     \* estimate_peak_params: the dict returned
    heap,         \* interleaved calls: list object id -> the list
    tables,       \* interleaved calls: the module-level param_defaults, param_limits
    t_pops,       \* interleaved calls: the populations of each call's fitter
    t_args,       \* interleaved calls: the params argument of each call
    t_pc,         \* interleaved calls: the position of each call
    t_dict,       \* interleaved calls: each call's working dict, key -> list id
    t_ret,        \* interleaved calls: what each call got, [err, d]
    q_I_arg,      \* SaxsFitter(q_I, populations, dI): the q_I argument
    dI_arg,       \* SaxsFitter(q_I, populations, dI): the dI argument
    dataframe,    \* check_labels: the rows of the dataframe passed
    possible_models,   \* check_labels: the dict returned
    cv_call,      \* testing_by_experiments(_regression): which, and label_std
    df,           \* testing_by_experiments: the rows of the dataframe passed
    loop_ij,      \* testing_by_experiments: position of the two loops
    folds,        \* testing_by_experiments: the locals tr, test of each fold
    test_scores_by_ex, \* testing_by_experiments: one entry per fold done
    acc,          \* testing_by_experiments: the value returned
    datasets,     \* get_pifs_from_Citrination: the records the client serves
    client_end,   \* the client: how it signals the end of a dataset
    n_search,     \* the client: the search requests it has answered
    pif_pc,       \* get_pifs_from_Citrination: position of the call
    query,        \* get_pifs_from_Citrination: the dataset asked and from_index
    current_result,    \* get_pifs_from_Citrination: the last search result
    all_hits,     \* get_pifs_from_Citrination: the hits collected
    pifs,         \* get_pifs_from_Citrination: the list returned
    s_and_m,      \* SaxsRegressor(yml_file): the content of the file
    reg_pc,       \* SaxsRegressor(yml_file): position in the loop over names
    reg_err,      \* SaxsRegressor(yml_file): the exception raised, or ""
    reg_m,        \* SaxsRegressor(yml_file): the local m
    reg_s,        \* SaxsRegressor(yml_file): the local s
    models,       \* SaxsRegressor: self.models
    scalers,      \* SaxsRegressor: self.scalers
    profile_keys, \* saxs_math.profile_keys, a module-level dict of lists
    train_pc,     \* train_regressors / train_classifiers: calls made so far
    trained       \* the feature list each model was trained on, per call

mergeVars == <<up_base, up_new, up_ret>>
seedVars == <<seed_in, seed_obj, pk_idx, pk_conf, conf_idx, seed_ret>>
concVars == <<heap, tables, t_pops, t_args, t_pc, t_dict, t_ret>>
fitVars == <<pc, call, args, params, obj_init, lmf_params, lmf_res, ret, events>>

ctorVars == <<q_I_arg, dI_arg>>
labelVars == <<dataframe, possible_models>>
cvVars == <<cv_call, df, loop_ij, folds, test_scores_by_ex, acc>>
pifVars == <<datasets, client_end, n_search, pif_pc, query, current_result,
            all_hits, pifs>>
regVars == <<s_and_m, reg_pc, reg_err, reg_m, reg_s, models, scalers>>
trainVars == <<profile_keys, train_pc, trained>>
mlVars == <<ctorVars, labelVars, cvVars, pifVars, regVars, trainVars>>

vars == <<populations, spectrum, fitVars, mergeVars, seedVars, concVars, mlVars>>

-----------------------------------------------------------------------------
(* Bounds of the model *)

MaxCount == 2     \* largest population count
MaxLen == 2       \* longest list in a caller's dict
MaxCands == 2     \* most candidates the window scan returns

-----------------------------------------------------------------------------
(* Python values *)

None == <<>>
Some(x) == <<x>>
PyTrue == 1 * 1000000
PyFalse == 0 * 1000000

\* bool(v) of a number
Truthy(v) == v # 0

\* a test `v != 0`, which None passes
TruthyCount_NotZero(c) == c # Some(0)

\* bool(v) of an optional count: None and 0 are falsy
TruthyCount(c) == c # None /\ c[1] # 0

NoArg == [none |-> TRUE, d |-> <<>>]
Arg(d) == [none |-> FALSE, d |-> d]

-----------------------------------------------------------------------------
(* OrderedDict as a sequence of <<key, value>> pairs *)

Keys(d) == [n \in 1..Len(d) |-> d[n][1]]
KeySet(d) == {d[n][1] : n \in 1..Len(d)}
HasKey(d, k) == k \in KeySet(d)
Get(d, k) == d[CHOOSE n \in 1..Len(d) : d[n][1] = k][2]

\* d[k] = v : replaces in place, or appends a new key at the end
Put(d, k, v) ==
    IF HasKey(d, k)
    THEN [n \in 1..Len(d) |-> IF d[n][1] = k THEN <<k, v>> ELSE d[n]]
    ELSE Append(d, <<k, v>>)

-----------------------------------------------------------------------------
(* The schema: saxskit/__init__.py (population_keys, parameter_keys) and   *)
(* the module-level tables of saxs_fit.py                                  *)

population_keys ==
    <<"unidentified", "guinier_porod", "spherical_normal", "diffraction_peaks">>

parameter_keys ==
    [unidentified      |-> <<>>,
     guinier_porod     |-> <<"G_gp", "rg_gp", "D_gp">>,
     spherical_normal  |-> <<"I0_sphere", "r0_sphere", "sigma_sphere">>,
     diffraction_peaks |-> <<"q_pkcenter", "I_pkcenter", "pk_hwhm">>]

\* saxs_fit.param_defaults, in micro-units, in the order of the source
param_defaults ==
    << <<"I0_floor", 0>>,
       <<"G_gp", 1000>>,
       <<"rg_gp", 10000000>>,
       <<"D_gp", 4000000>>,
       <<"I0_sphere", 1000>>,
       <<"r0_sphere", 20000000>>,
       <<"sigma_sphere", 50000>>,
       <<"q_pkcenter", 100000>>,
       <<"I_pkcenter", 1000000>>,
       <<"pk_hwhm", 1000>> >>

\* limits that are (0.0, 1.0) for every key
param_limits_Unit ==
    [n \in 1..Len(param_defaults) |->
        <<param_defaults[n][1], <<Some(0), Some(1000000)>> >>]

\* saxs_fit.param_limits: key -> <<lower, upper>>, each optional
param_limits ==
    << <<"I0_floor", <<Some(0), Some(100000000)>> >>,
       <<"G_gp", <<Some(0), None>> >>,
       <<"rg_gp", <<Some(100000), Some(1000000000)>> >>,
       <<"D_gp", <<Some(0), Some(4000000)>> >>,
       <<"I0_sphere", <<Some(0), None>> >>,
       <<"r0_sphere", <<Some(1000000), Some(1000000000)>> >>,
       <<"sigma_sphere", <<Some(0), Some(500000)>> >>,
       <<"q_pkcenter", <<Some(0), Some(1000000)>> >>,
       <<"I_pkcenter", <<Some(0), None>> >>,
       <<"pk_hwhm", <<Some(1), Some(100000)>> >> >>

\* float(x) of a number: the same number
float(x) == x

-----------------------------------------------------------------------------
(* update_params(p_old, p_new)                                             *)
(* The result is [err, d]: err is "" or the exception raised, d is p_old   *)
(* as the call left it (p_old is updated in place, key by key).            *)

\* a merge that takes the caller's list whole: p_old[k] = vals
MergeList_Whole(old, vals) == vals

\* lines 40-43 for one key that p_old has
MergeList(old, vals) ==
    [n \in 1..Len(old) |-> IF n <= Len(vals) THEN vals[n] ELSE old[n]]

RECURSIVE UpdateFrom(_, _, _)
UpdateFrom(p_old, p_new, n) ==
    IF n > Len(p_new) THEN [err |-> "", d |-> p_old]
    ELSE LET k == p_new[n][1]
             vals == p_new[n][2]
         IN  IF ~HasKey(p_old, k)
             THEN [err |-> "KeyError", d |-> p_old]      \* p_old[k], line 40
             ELSE UpdateFrom(Put(p_old, k, MergeList(Get(p_old, k), vals)),
                             p_new, n + 1)

update_params(p_old, p_new) == UpdateFrom(p_old, p_new, 1)

-----------------------------------------------------------------------------
(* SaxsFitter.default_params                                               *)

RECURSIVE DefaultsOfKeys_One(_, _, _, _)
\* defaults that give every key one entry, whatever the count
DefaultsOfKeys_One(pd, pks, v, n) ==
    IF n > Len(pks) THEN pd
    ELSE DefaultsOfKeys_One(
            Put(pd, pks[n], <<float(Get(param_defaults, pks[n]))>>),
            pks, v, n + 1)

RECURSIVE DefaultsOfKeys(_, _, _, _)
\* lines 174-175 for one population with count v
DefaultsOfKeys(pd, pks, v, n) ==
    IF n > Len(pks) THEN pd
    ELSE DefaultsOfKeys(
            Put(pd, pks[n], [i \in 1..v |-> float(Get(param_defaults, pks[n]))]),
            pks, v, n + 1)

RECURSIVE DefaultsFrom(_, _, _)
\* lines 171-175: the loop over self.populations.items()
DefaultsFrom(pd, pops, n) ==
    IF n > Len(population_keys) THEN pd
    ELSE LET p == population_keys[n]
             v == pops[p]
         IN  IF TruthyCount(v)
             THEN DefaultsFrom(DefaultsOfKeys(pd, parameter_keys[p], v[1], 1),
                               pops, n + 1)
             ELSE DefaultsFrom(pd, pops, n + 1)

default_params(pops) ==
    IF TruthyCount(pops["unidentified"]) THEN <<>>
    ELSE DefaultsFrom(<< <<"I0_floor", <<float(Get(param_defaults, "I0_floor"))>> >> >>,
                      pops, 1)

-----------------------------------------------------------------------------
(* The flat representation: lmfit.Parameters as a sequence of slots        *)
(* [name, value, vary, min, max] in the order they were added              *)

\* a slot name that leaves the index out
SlotName_KeyOnly(pkey, i) == pkey

\* pkey+str(i), lines 241 and 249; i is the Python index (from 0)
SlotName(pkey, i) == pkey \o ToString(i)

HasSlot(flat, name) == \E n \in 1..Len(flat) : flat[n].name = name
Slot(flat, name) == flat[CHOOSE n \in 1..Len(flat) : flat[n].name = name]

\* Parameters.add: a name already present is replaced in place
AddSlot(flat, s) ==
    IF HasSlot(flat, s.name)
    THEN [n \in 1..Len(flat) |-> IF flat[n].name = s.name THEN s ELSE flat[n]]
    ELSE Append(flat, s)

\* lines 225-227: every entry of the default schema set to False
AllFalse(d) == [n \in 1..Len(d) |-> <<d[n][1], [i \in 1..Len(d[n][2]) |-> PyFalse]>>]

\* bounds that take the limits of the first key for every entry
AllLimits_FirstKey(d) ==
    [n \in 1..Len(d) |->
        <<d[n][1], [i \in 1..Len(d[n][2]) |-> param_limits[1][2]]>>]

\* lines 232-234: every entry of the default schema set to param_limits[k]
AllLimits(d) ==
    [n \in 1..Len(d) |->
        <<d[n][1], [i \in 1..Len(d[n][2]) |-> Get(param_limits, d[n][1])]>>]

\* a vary flag that is the mask entry itself
SlotVary_Same(fp, pkey, i) == Truthy(Get(fp, pkey)[i])

\* vary=not fp[pkey][i], line 241
SlotVary(fp, pkey, i) == ~Truthy(Get(fp, pkey)[i])

\* lines 240-242 for one key
RECURSIVE AddKeySlots(_, _, _, _, _, _)
AddKeySlots(flat, pkey, pvals, fp, pb, i) ==
    IF i > Len(pvals) THEN flat
    ELSE AddKeySlots(
            AddSlot(flat, [name  |-> SlotName(pkey, i - 1),
                           value |-> pvals[i],
                           vary  |-> SlotVary(fp, pkey, i),
                           min   |-> Get(pb, pkey)[i][1],
                           max   |-> Get(pb, pkey)[i][2]]),
            pkey, pvals, fp, pb, i + 1)

\* lines 238-242
RECURSIVE AddAllSlots(_, _, _, _, _)
AddAllSlots(flat, p, fp, pb, n) ==
    IF n > Len(p) THEN flat
    ELSE AddAllSlots(AddKeySlots(flat, p[n][1], p[n][2], fp, pb, 1),
                     p, fp, pb, n + 1)

\* SaxsFitter.lmfit_params: [err, flat]
lmfit_params(pops, a_params, a_fixed, a_bounds) ==
    LET dp == default_params(pops)
        p  == IF a_params.none THEN [err |-> "", d |-> dp]
              ELSE update_params(dp, a_params.d)
        fp == IF a_fixed.none THEN [err |-> "", d |-> AllFalse(dp)]
              ELSE update_params(AllFalse(dp), a_fixed.d)
        pb == IF a_bounds.none THEN [err |-> "", d |-> AllLimits(dp)]
              ELSE update_params(AllLimits(dp), a_bounds.d)
    IN  IF p.err # "" THEN [err |-> p.err, flat |-> <<>>]
        ELSE IF fp.err # "" THEN [err |-> fp.err, flat |-> <<>>]
        ELSE IF pb.err # "" THEN [err |-> pb.err, flat |-> <<>>]
        ELSE [err |-> "", flat |-> AddAllSlots(<<>>, p.d, fp.d, pb.d, 1)]

\* a read that starts at index 1: the last entry keeps its default
ReadKey_FromOne(flat, pkey, pvals) ==
    [i \in 1..Len(pvals) |->
        IF HasSlot(flat, SlotName(pkey, i)) THEN float(Slot(flat, SlotName(pkey, i)).value)
        ELSE pvals[i]]

\* lines 248-249 for one key
ReadKey(flat, pkey, pvals) ==
    [i \in 1..Len(pvals) |-> float(Slot(flat, SlotName(pkey, i - 1)).value)]

\* a result that keeps the flat names: one key per slot
saxskit_params_Flat(pops, flat) ==
    [err |-> "",
     d |-> [n \in 1..Len(flat) |-> <<flat[n].name, <<float(flat[n].value)>> >>]]

\* SaxsFitter.saxskit_params: [err, d]
saxskit_params(pops, flat) ==
    LET p == default_params(pops)
    IN  IF \E n \in 1..Len(p) : \E i \in 1..Len(p[n][2]) :
               ~HasSlot(flat, SlotName(p[n][1], i - 1))
        THEN [err |-> "KeyError", d |-> <<>>]
        ELSE [err |-> "",
              d |-> [n \in 1..Len(p) |-> <<p[n][1], ReadKey(flat, p[n][1], p[n][2])>>]]

-----------------------------------------------------------------------------
(* The spectrum and the objective.  A NaN is None.  Intensities are small  *)
(* integers; log and sqrt are the integer parts of log2 and of the square  *)
(* root.                                                                   *)

RECURSIVE SumSeq(_)
SumSeq(s) == IF s = <<>> THEN 0 ELSE Head(s) + SumSeq(Tail(s))

RECURSIVE ILog(_)
ILog(x) == IF x <= 1 THEN 0 ELSE 1 + ILog(x \div 2)

ISqrt(x) == CHOOSE r \in 0..x : r * r <= x /\ (r + 1) * (r + 1) > x

\* np.log of one number: NaN (or -inf) for a non-positive argument
NpLog(x) == IF x > 0 THEN Some(ILog(x)) ELSE None

\* a constructor whose fit mask takes the points of zero intensity too
SaxsFitterInit_Nonneg(q, I, dI) ==
    LET idx_fit == [j \in 1..Len(I) |-> I[j] >= 0]
    IN  [q       |-> q,
         I       |-> I,
         idx_fit |-> idx_fit,
         logI    |-> [j \in 1..Len(I) |-> IF idx_fit[j] THEN NpLog(I[j]) ELSE None],
         dI      |-> IF dI # None THEN dI[1]
                     ELSE [j \in 1..Len(I) |->
                              IF idx_fit[j] THEN Some(ISqrt(I[j])) ELSE None]]

\* SaxsFitter.__init__: self.q, self.I, self.idx_fit, self.logI, self.dI
SaxsFitterInit(q, I, dI) ==
    LET idx_fit == [j \in 1..Len(I) |-> I[j] > 0]
    IN  [q       |-> q,
         I       |-> I,
         idx_fit |-> idx_fit,
         logI    |-> [j \in 1..Len(I) |-> IF idx_fit[j] THEN NpLog(I[j]) ELSE None],
         dI      |-> IF dI # None THEN dI[1]
                     ELSE [j \in 1..Len(I) |->
                              IF idx_fit[j] THEN Some(ISqrt(I[j])) ELSE None]]

\* a digest of every entry of a parameter dict, position by position
RECURSIVE DigestList(_, _)
DigestList(l, w) ==
    IF l = <<>> THEN 0
    ELSE ((Head(l) \div 1000) % 13) * w + DigestList(Tail(l), w + 1)

RECURSIVE Digest(_, _)
Digest(d, n) ==
    IF n > Len(d) THEN 0 ELSE DigestList(d[n][2], 2 * n - 1) + Digest(d, n + 1)

\* saxs_math.compute_saxs: a pure function of (q, populations, params);
\* the modeled intensity may be zero
compute_saxs(q, pops, p) ==
    [j \in 1..Len(q) |-> (Digest(p, 1) + q[j] \div 50000) % 11]

\* saxs_math.compute_chi2 over the points selected by the mask: the sum of
\* the squared residuals, each divided by its squared uncertainty when
\* weights are given (in units of 1/3600); NaN as soon as one term is NaN
Chi2Term(y1, y2, w) ==
    IF y1 = None \/ y2 = None THEN None
    ELSE IF w = None THEN Some((y1[1] - y2[1]) * (y1[1] - y2[1]))
    ELSE IF w[1] = None \/ w[1][1] = 0 THEN None
    ELSE Some(((y1[1] - y2[1]) * (y1[1] - y2[1]) * 3600) \div (w[1][1] * w[1][1]))

RECURSIVE Chi2From(_, _, _, _, _)
Chi2From(y1, y2, w, mask, j) ==
    IF j > Len(mask) THEN Some(0)
    ELSE LET rest == Chi2From(y1, y2, w, mask, j + 1)
             t == Chi2Term(y1[j], y2[j], IF w = None THEN None ELSE Some(w[1][j]))
         IN  IF ~mask[j] THEN rest
             ELSE IF rest = None \/ t = None THEN None
             ELSE Some(t[1] + rest[1])

compute_chi2(y1, y2, w, mask) == Chi2From(y1, y2, w, mask, 1)

\* SaxsFitter.evaluate
evaluate(self, pops, p, error_weighted) ==
    LET I_comp == compute_saxs(self.q, pops, p)
        logc == [j \in 1..Len(I_comp) |-> NpLog(I_comp[j])]
    IN  IF error_weighted
        THEN compute_chi2(logc, self.logI, Some(self.dI), self.idx_fit)
        ELSE compute_chi2(logc, self.logI, None, self.idx_fit)

\* lines 144-147: mean(I_opt)/std(I - I_opt), kept as the pair
\* <<sum of I_opt, n * sum of squares - square of the sum of I - I_opt>>
FitSnr(self, pops, p) ==
    LET I_opt == compute_saxs(self.q, pops, p)
        I_bg == [j \in 1..Len(I_opt) |-> self.I[j] - I_opt[j]]
        sq == [j \in 1..Len(I_bg) |-> I_bg[j] * I_bg[j]]
    IN  <<SumSeq(I_opt), Len(I_bg) * SumSeq(sq) - SumSeq(I_bg) * SumSeq(I_bg)>>

-----------------------------------------------------------------------------
(* Inputs *)

\* an unset count is None when the spec was built with fromkeys, else 0
Unset == {None, Some(0)}

\* population specs: every count unset or 1..MaxCount (`unidentified` unset
\* or 1), with at most MaxCount scatterers in all
PopChoices ==
    {pops \in [{population_keys[n] : n \in 1..Len(population_keys)} ->
                  Unset \cup {Some(c) : c \in 1..MaxCount}] :
        /\ \E u \in Unset : \A k \in DOMAIN pops : pops[k] \in Unset => pops[k] = u
        /\ pops["unidentified"] \in Unset \cup {Some(1)}
        /\ SumSeq([n \in 1..3 |->
                     IF pops[population_keys[n + 1]] = None THEN 0
                     ELSE pops[population_keys[n + 1]][1]]) <= MaxCount}

\* the one spectrum of the session: I has a point that is not positive
TheSpectrum ==
    SaxsFitterInit(<<50000, 150000, 250000, 350000>>, <<4, 0, 9, 2>>, None)

\* the keys a caller's dict names
ArgKeys == {"I0_floor", "rg_gp", "q_pkcenter"}

\* a caller's initial guess for one key: 3.0, 4.0, ...
ParamLists == {[i \in 1..len |-> (2 + i) * 1000000] : len \in 1..MaxLen}

\* a caller's fixed_params list: True/False, which are also 1.0 and 0.0
FixedLists ==
    {[i \in 1..len |-> IF i = j THEN PyTrue ELSE PyFalse] :
        len \in 1..MaxLen, j \in 0..MaxLen}

\* a caller's param_limits list
BoundLists == {[i \in 1..MaxLen |-> <<Some(0), Some(60000 * i)>>]}

OneKey(k, lists) == {Arg(<< <<k, l>> >>) : l \in lists}

\* what the optimizer may move every free slot to
OptVals == {50000}

NoRet == [kind |-> "none", err |-> "", p_opt |-> <<>>, rpt |-> <<>>]
NoCallArgs == [params |-> NoArg, fixed_params |-> NoArg,
               param_limits |-> NoArg, error_weighted |-> TRUE]
NoRes == [params |-> <<>>, success |-> FALSE]
NoCall == [op |-> "", passed |-> NoCallArgs, prev |-> None]

-----------------------------------------------------------------------------
(* SaxsFitter.fit *)

Raise(e) == [kind |-> "raise", err |-> e, p_opt |-> <<>>, rpt |-> <<>>]
Return(p_opt, rpt) == [kind |-> "return", err |-> "", p_opt |-> p_opt, rpt |-> rpt]

\* lines 124-128: the defaults merged with the caller's params
MergedParams(pops, a_params) ==
    IF a_params.none THEN [err |-> "", d |-> default_params(pops)]
    ELSE update_params(default_params(pops), a_params.d)

\* a check of the wrong population
FitSkips_Peaks(pops) == TruthyCount(pops["diffraction_peaks"])

\* line 121: bool(self.populations['unidentified'])
FitSkips(pops) == TruthyCount(pops["unidentified"])

\* a merge that moves the values out of p_new
update_params_p_new_Drained(p_old, p_new) ==
    [n \in 1..Len(p_new) |-> <<p_new[n][1], <<>> >>]

\* update_params seen from p_new, lines 39-43: p_new is only read
\* (p_new.keys(), p_new[k]), every write goes to p_old[k][i]
update_params_p_new(p_old, p_new) == p_new

\* a caller's optional dict after update_params(base, dict) ran
ArgAfter(base, a) ==
    IF a.none THEN a ELSE Arg(update_params_p_new(base, a.d))

\* the caller's three dicts after lines 124-133 ran on them; lmfit_params
\* is reached when the merge of line 128 did not raise
ArgsAfter(pops, a, merged) ==
    LET dp == default_params(pops)
    IN  [params         |-> ArgAfter(dp, a.params),
         fixed_params   |-> IF merged THEN ArgAfter(AllFalse(dp), a.fixed_params)
                            ELSE a.fixed_params,
         param_limits   |-> IF merged THEN ArgAfter(AllLimits(dp), a.param_limits)
                            ELSE a.param_limits,
         error_weighted |-> a.error_weighted]

\* lines 121-133: up to the call of the optimizer, for the call `c` of a
\* public method that reaches fit() with the arguments a
FitCall(c, a) ==
    /\ call' = c
    /\ IF FitSkips(populations)
       THEN /\ pc' = "SKIPPED"
            /\ args' = a
            /\ ret' = Return(<<>>, <<>>)
            /\ events' = <<>>
            /\ params' = <<>> /\ obj_init' = None /\ lmf_params' = <<>>
       ELSE \E m \in {MergedParams(populations, a.params)} :
            \E lm \in {lmfit_params(populations, Arg(m.d), a.fixed_params,
                                   a.param_limits)} :
                /\ args' = ArgsAfter(populations, a, m.err = "")
                /\ IF m.err # ""
                   THEN /\ pc' = "raised"
                        /\ ret' = Raise(m.err)
                        /\ events' = <<"default_params">>
                        /\ params' = <<>> /\ obj_init' = None
                        /\ lmf_params' = <<>>
                   ELSE /\ params' = m.d
                        /\ obj_init' = Some(evaluate(spectrum, populations, m.d,
                                                     a.error_weighted))
                        /\ IF lm.err # ""
                           THEN /\ pc' = "raised"
                                /\ ret' = Raise(lm.err)
                                /\ events' = <<"default_params", "evaluate">>
                                /\ lmf_params' = <<>>
                           ELSE /\ pc' = "OPTIMIZING"
                                /\ ret' = NoRet
                                /\ events' = <<"default_params", "evaluate",
                                               "lmfit_params">>
                                /\ lmf_params' = lm.flat
    /\ lmf_res' = NoRes
    /\ UNCHANGED <<populations, spectrum, mergeVars, seedVars, concVars, mlVars>>

\* fit(params, fixed_params, param_limits, error_weighted) called by the
\* user of an idle fitter
FitBegin(a) ==
    /\ pc = "idle"
    /\ FitCall([op |-> "fit", passed |-> a, prev |-> None], a)

Fit ==
    \E k \in ArgKeys :
    \E ap \in {NoArg} \cup OneKey(k, ParamLists) :
    \E af \in {NoArg} \cup OneKey(k, FixedLists) :
    \E ab \in {NoArg} \cup OneKey(k, BoundLists) :
    \E ew \in BOOLEAN :
        FitBegin([params |-> ap, fixed_params |-> af, param_limits |-> ab,
                  error_weighted |-> ew])

\* whether the optimizer may give a slot the value v
InBounds(s, v) ==
    /\ s.min = None \/ s.min[1] <= v
    /\ s.max = None \/ v <= s.max[1]

\* lmfit.minimize, lines 134-136: the optimizer leaves every slot as it
\* is, or moves every free slot to a value inside its bounds; it evaluates
\* the objective through lmf_evaluate as it goes
Minimize ==
    /\ pc = "OPTIMIZING"
    /\ \E success \in BOOLEAN :
       \E move \in BOOLEAN :
       \E v \in OptVals :
          lmf_res' =
            [params |->
                [n \in 1..Len(lmf_params) |->
                    IF move /\ lmf_params[n].vary /\ InBounds(lmf_params[n], v)
                    THEN [lmf_params[n] EXCEPT !.value = v]
                    ELSE lmf_params[n]],
             success |-> success]
    /\ events' = events \o <<"minimize", "lmf_evaluate">>
    /\ pc' = "optimized"
    /\ UNCHANGED <<populations, spectrum, call, args, params, obj_init,
                   lmf_params, ret, mergeVars, seedVars, concVars, mlVars>>

\* an lmf_evaluate that leaves error_weighted at its default
lmf_evaluate_Default(self, pops, flat, error_weighted) ==
    evaluate(self, pops, saxskit_params(pops, flat).d, TRUE)

\* SaxsFitter.lmf_evaluate
lmf_evaluate(self, pops, flat, error_weighted) ==
    evaluate(self, pops, saxskit_params(pops, flat).d, error_weighted)

\* a report that holds the objectives of a converged fit only
FitReport_Converged(success, obj0, obj1, snr) ==
    IF success
    THEN << <<"success", success>>, <<"initial_objective", obj0>>,
            <<"final_objective", obj1>>, <<"fit_snr", snr>> >>
    ELSE << <<"success", success>> >>

\* lines 139-148: rpt, whatever lmf_res.success is
FitReport(success, obj0, obj1, snr) ==
    << <<"success", success>>, <<"initial_objective", obj0>>,
       <<"final_objective", obj1>>, <<"fit_snr", snr>> >>

\* lines 137-163
FitFinish ==
    /\ pc = "optimized"
    /\ \E p_opt \in {saxskit_params(populations, lmf_res.params)} :
       LET fit_obj == lmf_evaluate(spectrum, populations, lmf_res.params,
                                   args.error_weighted)
           rpt == FitReport(lmf_res.success, obj_init[1], fit_obj,
                            FitSnr(spectrum, populations, p_opt.d))
       IN  IF p_opt.err # ""
           THEN /\ pc' = "raised"
                /\ ret' = Raise(p_opt.err)
           ELSE /\ pc' = "REPORTED"
                /\ ret' = Return(p_opt.d, rpt)
    /\ events' = events \o <<"saxskit_params", "lmf_evaluate", "compute_saxs">>
    /\ UNCHANGED <<populations, spectrum, call, args, params, obj_init,
                   lmf_params, lmf_res, mergeVars, seedVars, concVars, mlVars>>

\* the caller takes the result; the locals of the call are gone
Done ==
    /\ pc \in {"SKIPPED", "REPORTED", "raised"}
    /\ pc' = "idle"
    /\ call' = NoCall
    /\ args' = NoCallArgs
    /\ params' = <<>>
    /\ obj_init' = None
    /\ lmf_params' = <<>>
    /\ lmf_res' = NoRes
    /\ ret' = NoRet
    /\ events' = <<>>
    /\ UNCHANGED <<populations, spectrum, mergeVars, seedVars, concVars, mlVars>>

-----------------------------------------------------------------------------
(* The module-level tables as objects, and no interleaved call running *)

ModuleTables == [param_defaults |-> param_defaults, param_limits |-> param_limits]

NoThreads ==
    /\ heap = <<>>
    /\ tables = ModuleTables
    /\ t_pops = <<>>
    /\ t_args = <<>>
    /\ t_pc = <<>>
    /\ t_dict = <<>>
    /\ t_ret = <<>>

-----------------------------------------------------------------------------
(* saxs_math.profile_keys as the module defines it, and the state of the   *)
(* modelling functions before any of them is called                        *)

saxs_math_profile_keys ==
    << <<"unidentified", <<"Imax_over_Imean", "q_Imax">> >>,
       <<"guinier_porod", <<"I0_over_Imean", "I0_curvature">> >>,
       <<"spherical_normal", <<"q_at_Iq4_min1", "pIq4_qwidth">> >>,
       <<"diffraction_peaks", <<>> >> >>

\* a local name that no assignment has bound yet, and one bound to o
NoObject == [class |-> "", attrs |-> <<>>]
Unbound == [bound |-> FALSE, obj |-> NoObject]
Bound(o) == [bound |-> TRUE, obj |-> o]

NoCtor ==
    /\ q_I_arg = [q |-> <<>>, I |-> <<>>]
    /\ dI_arg = None

NoLabels ==
    /\ dataframe = <<>>
    /\ possible_models = <<>>

NoFolds ==
    /\ cv_call = [op |-> "", label_std |-> None]
    /\ df = <<>>
    /\ loop_ij = <<0, 0>>
    /\ folds = <<>>
    /\ test_scores_by_ex = <<>>
    /\ acc = None

NoPifs ==
    /\ datasets = <<>>
    /\ client_end = "none"
    /\ n_search = 0
    /\ pif_pc = "idle"
    /\ query = [dataset |-> 0, from_index |-> 0]
    /\ current_result = [hits |-> None]
    /\ all_hits = <<>>
    /\ pifs = <<>>

NoRegressor ==
    /\ s_and_m = <<>>
    /\ reg_pc = 0
    /\ reg_err = ""
    /\ reg_m = Unbound
    /\ reg_s = Unbound
    /\ models = <<>>
    /\ scalers = <<>>

NoTraining ==
    /\ profile_keys = saxs_math_profile_keys
    /\ train_pc = 0
    /\ trained = <<>>

NoModels ==
    /\ NoCtor
    /\ NoLabels
    /\ NoFolds
    /\ NoPifs
    /\ NoRegressor
    /\ NoTraining

\* no fitter call running, no direct update_params or estimate_peak_params
NoFitter ==
    /\ populations = [k \in {population_keys[n] : n \in 1..Len(population_keys)}
                        |-> None]
    /\ pc = "idle"
    /\ call = NoCall
    /\ args = NoCallArgs
    /\ params = <<>>
    /\ obj_init = None
    /\ lmf_params = <<>>
    /\ lmf_res = NoRes
    /\ ret = NoRet
    /\ events = <<>>
    /\ up_base = <<>>
    /\ up_new = <<>>
    /\ up_ret = [err |-> "", d |-> <<>>]
    /\ seed_in = NoArg
    /\ seed_obj = NoArg
    /\ pk_idx = <<>>
    /\ pk_conf = <<>>
    /\ conf_idx = <<>>
    /\ seed_ret = <<>>
    /\ NoThreads

-----------------------------------------------------------------------------
(* The session of one fitter *)

Init ==
    /\ populations \in PopChoices
    /\ spectrum = TheSpectrum
    /\ pc = "idle"
    /\ call = NoCall
    /\ args = NoCallArgs
    /\ params = <<>>
    /\ obj_init = None
    /\ lmf_params = <<>>
    /\ lmf_res = NoRes
    /\ ret = NoRet
    /\ events = <<>>
    /\ up_base = <<>>
    /\ up_new = <<>>
    /\ up_ret = [err |-> "", d |-> <<>>]
    /\ seed_in = NoArg
    /\ seed_obj = NoArg
    /\ pk_idx = <<>>
    /\ pk_conf = <<>>
    /\ conf_idx = <<>>
    /\ seed_ret = <<>>
    /\ NoThreads
    /\ NoModels

Next == Fit \/ Minimize \/ FitFinish \/ Done

Spec == Init /\ [][Next]_vars

-----------------------------------------------------------------------------
(* A session of chained calls: fit(params), fit_intensity_params(params),  *)
(* and fit(p) on the p that the last fit returned                          *)

\* line 256: the keys that fit_intensity_params leaves free
AmplitudeKeys == {"I0_floor", "I0_sphere", "G_gp", "I_pkcenter"}

\* a mask that fixes nothing
IntensityMask_AllFree(pops) == AllFalse(default_params(pops))

\* lines 254-261: fp, False for the amplitude keys and True for the others
IntensityMask(pops) ==
    LET fp == default_params(pops)
    IN  [n \in 1..Len(fp) |->
            <<fp[n][1],
              [i \in 1..Len(fp[n][2]) |->
                  IF fp[n][1] \in AmplitudeKeys THEN PyFalse ELSE PyTrue]>>]

\* SaxsFitter.fit_intensity_params(params): return self.fit(params, fp)
FitIntensityParams ==
    /\ pc = "idle"
    /\ \E k \in ArgKeys : \E ap \in OneKey(k, ParamLists) :
        \E a \in {[params |-> ap, fixed_params |-> Arg(IntensityMask(populations)),
                   param_limits |-> NoArg, error_weighted |-> TRUE]} :
            FitCall([op |-> "fit_intensity_params", passed |-> a, prev |-> None], a)

\* fit() or fit(params)
FitParams ==
    \E k \in ArgKeys : \E ap \in {NoArg} \cup OneKey(k, ParamLists) :
        FitBegin([params |-> ap, fixed_params |-> NoArg, param_limits |-> NoArg,
                  error_weighted |-> TRUE])

\* fit(p) on the p_opt that the call before returned, lines 42-48 of the
\* tests
FitAgain ==
    /\ pc \in {"SKIPPED", "REPORTED"}
    /\ \E a \in {[params |-> Arg(ret.p_opt), fixed_params |-> NoArg,
                   param_limits |-> NoArg, error_weighted |-> TRUE]} :
            FitCall([op |-> "fit", passed |-> a, prev |-> Some(ret.p_opt)], a)

NextSession ==
    FitParams \/ FitIntensityParams \/ FitAgain \/ Minimize \/ FitFinish \/ Done

SpecSession == Init /\ [][NextSession]_vars

-----------------------------------------------------------------------------
(* update_params called directly, on dicts of any keys *)

MergeKeys == {"I0_floor", "rg_gp", "q_pkcenter"}

\* the key orders of a dict of at most two keys
KeyOrders ==
    {<<>>} \cup {<<k>> : k \in MergeKeys}
           \cup {ks \in MergeKeys \X MergeKeys : ks[1] # ks[2]}

\* the dicts with these keys: the list of the n-th key has any length of
\* 1..MaxLen and holds the values tag + 10*n + 1, tag + 10*n + 2, ... (whole
\* units), all different
DictsOver(ks, tag) ==
    {[n \in 1..Len(ks) |->
         <<ks[n], [i \in 1..lens[n] |-> (tag + 10 * n + i) * 1000000]>>] :
     lens \in [1..Len(ks) -> 1..MaxLen]}

BaseDicts == UNION {DictsOver(ks, 0) : ks \in KeyOrders \ {<<>>}}
NewDicts == UNION {DictsOver(ks, 100) : ks \in KeyOrders}

UpdateParams ==
    /\ pc = "idle"
    /\ up_base = <<>>
    /\ \E b \in BaseDicts : \E o \in NewDicts :
          /\ up_base' = b
          /\ up_new' = o
          /\ up_ret' = update_params(b, o)
    /\ UNCHANGED <<populations, spectrum, fitVars, seedVars, concVars, mlVars>>

InitMerge ==
    /\ populations = [k \in {population_keys[n] : n \in 1..Len(population_keys)}
                        |-> None]
    /\ spectrum = TheSpectrum
    /\ pc = "idle"
    /\ call = NoCall
    /\ args = NoCallArgs
    /\ params = <<>>
    /\ obj_init = None
    /\ lmf_params = <<>>
    /\ lmf_res = NoRes
    /\ ret = NoRet
    /\ events = <<>>
    /\ up_base = <<>>
    /\ up_new = <<>>
    /\ up_ret = [err |-> "", d |-> <<>>]
    /\ seed_in = NoArg
    /\ seed_obj = NoArg
    /\ pk_idx = <<>>
    /\ pk_conf = <<>>
    /\ conf_idx = <<>>
    /\ seed_ret = <<>>
    /\ NoThreads
    /\ NoModels

NextMerge == UpdateParams

SpecMerge == InitMerge /\ [][NextMerge]_vars

-----------------------------------------------------------------------------
(* SaxsFitter.estimate_peak_params                                         *)

\* the spectrum of the peak seeder: I in whole units, three points of q
\* within 5% of one another and two points apart
SeedSpectrum ==
    SaxsFitterInit(<<100000, 102000, 104000, 200000, 300000>>,
                   <<4, 9, 6, 3, 2>>, None)

\* the confidences the window scan may give
ConfVals == {1, 2}

\* peak_finder.peaks_by_window(q, I, 20, 0.): any candidates, as different
\* indices into the spectrum (from 1), each with a confidence
peaks_by_window(q, I) ==
    {c \in [pk_idx : UNION {[1..n -> 1..Len(q)] : n \in 0..MaxCands},
            pk_conf : UNION {[1..n -> ConfVals] : n \in 0..MaxCands}] :
        /\ Len(c.pk_idx) = Len(c.pk_conf)
        /\ \A m, n \in 1..Len(c.pk_idx) : c.pk_idx[m] = c.pk_idx[n] => m = n}

\* an argsort that is not reversed: the orders by ascending confidence
argsort_reversed_Ascending(conf) ==
    {o \in [1..Len(conf) -> 1..Len(conf)] :
        /\ \A m, n \in 1..Len(conf) : o[m] = o[n] => m = n
        /\ \A m, n \in 1..Len(conf) : m < n => conf[o[m]] <= conf[o[n]]}

\* np.argsort(pk_conf)[::-1], line 270: the orders of the candidates by
\* descending confidence (the order among equal confidences is not fixed)
argsort_reversed(conf) ==
    {o \in [1..Len(conf) -> 1..Len(conf)] :
        /\ \A m, n \in 1..Len(conf) : o[m] = o[n] => m = n
        /\ \A m, n \in 1..Len(conf) : m < n => conf[o[m]] >= conf[o[n]]}

\* lines 284-291: the points within 5% of q_pk, standardized and fitted by
\* a parabola; float(p_pk_fwidth*0.5) is not a finite number when fewer
\* than three points support the fit
HalfWidth(self, j) ==
    LET around == {i \in 1..Len(self.q) :
                      /\ 100 * self.q[i] > 95 * self.q[j]
                      /\ 100 * self.q[i] < 105 * self.q[j]}
    IN  IF Cardinality(around) < 3 THEN None
        ELSE Some(1000 * Cardinality(around) + self.I[j])

\* a start that keeps the lists the dict has
ResetPeaks_Keep(d) ==
    LET keep(dd, k) == IF HasKey(dd, k) THEN dd ELSE Put(dd, k, <<>>)
    IN  keep(keep(keep(d, "q_pkcenter"), "I_pkcenter"), "pk_hwhm")

\* lines 271-273: the three keys set to new empty lists
ResetPeaks(d) ==
    Put(Put(Put(d, "q_pkcenter", <<>>), "I_pkcenter", <<>>), "pk_hwhm", <<>>)

\* lines 276-296: the loop over conf_idx from its n-th element on
RECURSIVE SeedLoop(_, _, _, _, _, _, _)
SeedLoop(d, self, count, pkidx, confidx, n, npk) ==
    IF n > Len(confidx) THEN d
    ELSE IF npk < count
    THEN LET j == pkidx[confidx[n]]
             q_pk == self.q[j]
             I_pk == (self.I[j] * 1000000) \div 10
             d1 == Put(d, "q_pkcenter", Append(Get(d, "q_pkcenter"), float(q_pk)))
             d2 == Put(d1, "I_pkcenter", Append(Get(d1, "I_pkcenter"), float(I_pk)))
             d3 == Put(d2, "pk_hwhm", Append(Get(d2, "pk_hwhm"), HalfWidth(self, j)))
         IN  SeedLoop(d3, self, count, pkidx, confidx, n + 1, npk + 1)
    ELSE SeedLoop(d, self, count, pkidx, confidx, n + 1, npk)

\* SaxsFitter.estimate_peak_params(params): the dict returned, which is
\* the caller's dict itself when one was passed
estimate_peak_params(pops, self, a_params, pkidx, confidx) ==
    LET p0 == IF a_params.none THEN default_params(pops) ELSE a_params.d
    IN  IF TruthyCount(pops["diffraction_peaks"])
        THEN SeedLoop(ResetPeaks(p0), self, pops["diffraction_peaks"][1],
                      pkidx, confidx, 1, 0)
        ELSE p0

\* the fitters of the seeder: no population but diffraction peaks
SeedPops ==
    {pops \in PopChoices :
        /\ ~TruthyCount(pops["guinier_porod"])
        /\ ~TruthyCount(pops["spherical_normal"])
        /\ ~TruthyCount(pops["unidentified"])}

\* the params a caller passes: nothing, a dict without the peak keys, or
\* a dict whose peak keys hold 1..MaxLen old values (7.0, 8.0, ..)
SeedArgs ==
    {NoArg, Arg(<< <<"I0_floor", <<0>> >> >>)} \cup
    {Arg(<< <<"I0_floor", <<0>> >>,
            <<"q_pkcenter", [i \in 1..len |-> (6 + i) * 1000000]>>,
            <<"I_pkcenter", [i \in 1..len |-> (6 + i) * 1000000]>>,
            <<"pk_hwhm", [i \in 1..len |-> Some((6 + i) * 1000000)]>> >>) :
       len \in 1..MaxLen}

EstimatePeakParams ==
    /\ pc = "idle"
    /\ \E a \in SeedArgs :
       \E c \in peaks_by_window(spectrum.q, spectrum.I) :
       \E o \in argsort_reversed(c.pk_conf) :
       \E r \in {estimate_peak_params(populations, spectrum, a, c.pk_idx, o)} :
          /\ seed_in' = a
          /\ pk_idx' = c.pk_idx
          /\ pk_conf' = c.pk_conf
          /\ conf_idx' = o
          /\ seed_ret' = r
          /\ seed_obj' = IF a.none THEN NoArg ELSE Arg(r)
    /\ pc' = "seeded"
    /\ UNCHANGED <<populations, spectrum, call, args, params, obj_init,
                   lmf_params, lmf_res, ret, events, mergeVars, concVars, mlVars>>

InitSeed ==
    /\ populations \in SeedPops
    /\ spectrum = SeedSpectrum
    /\ pc = "idle"
    /\ call = NoCall
    /\ args = NoCallArgs
    /\ params = <<>>
    /\ obj_init = None
    /\ lmf_params = <<>>
    /\ lmf_res = NoRes
    /\ ret = NoRet
    /\ events = <<>>
    /\ up_base = <<>>
    /\ up_new = <<>>
    /\ up_ret = [err |-> "", d |-> <<>>]
    /\ seed_in = NoArg
    /\ seed_obj = NoArg
    /\ pk_idx = <<>>
    /\ pk_conf = <<>>
    /\ conf_idx = <<>>
    /\ seed_ret = <<>>
    /\ NoThreads
    /\ NoModels

NextSeed == EstimatePeakParams

SpecSeed == InitSeed /\ [][NextSeed]_vars

-----------------------------------------------------------------------------
(* Two fit() calls whose steps interleave.  Lists are objects on a heap;   *)
(* a working dict maps its keys to list ids.  Each call makes its dict     *)
(* (default_params), merges the caller's params into it entry by entry     *)
(* (update_params), and reads it (evaluate, lmfit_params).  The fixed      *)
(* mask, the bounds and the dict of saxskit_params are made and filled     *)
(* the same way, by default_params and writes to its lists.                *)

Threads == {1, 2}

\* the fitters of the two calls: any guinier_porod count, or unidentified
ConcPops ==
    {pops \in PopChoices :
        /\ pops["spherical_normal"] = None /\ pops["diffraction_peaks"] = None
        /\ pops["unidentified"] = None \/ pops["guinier_porod"] = None
        /\ pops["guinier_porod"] # Some(0) /\ pops["unidentified"] # Some(0)}

ConcArgs == {NoArg} \cup OneKey("I0_floor", ParamLists) \cup OneKey("rg_gp", ParamLists)

\* a list object per key, made once and handed out again
NewListId_PerKey(h, k) ==
    CHOOSE n \in 1..Len(param_defaults) : param_defaults[n][1] = k

\* line 175 (and 170): a list display or comprehension makes a new list
\* object at every evaluation
NewListId(h, k) == Cardinality(DOMAIN h) + 1

Store(h, id, l) == [x \in DOMAIN h \cup {id} |-> IF x = id THEN l ELSE h[x]]

\* default_params() on the heap: [h, d], the n-th key onwards
RECURSIVE AllocDefaults(_, _, _, _, _)
AllocDefaults(h, d, dp, tb, n) ==
    IF n > Len(dp) THEN [h |-> h, d |-> d]
    ELSE LET k == dp[n][1]
             id == NewListId(h, k)
             l == [i \in 1..Len(dp[n][2]) |-> float(Get(tb.param_defaults, k))]
         IN  AllocDefaults(Store(h, id, l), Append(d, <<k, id>>), dp, tb, n + 1)

\* the dict a call holds, with its lists as they are now
Deref(h, d) == [n \in 1..Len(d) |-> <<d[n][1], h[d[n][2]]>>]

At(t, at) == t_pc[t].at = at
Goto(t, at, i) == t_pc' = [t_pc EXCEPT ![t] = [@ EXCEPT !.at = at, !.i = i]]

\* lines 121-126: the early return, or dp = self.default_params() and, for
\* params None, straight on
TDefaultParams(t) ==
    /\ At(t, "start")
    /\ IF FitSkips(t_pops[t])
       THEN /\ t_ret' = [t_ret EXCEPT ![t] = [err |-> "", d |-> <<>>]]
            /\ t_pc' = [t_pc EXCEPT ![t] = [at |-> "done", i |-> 0,
                  overlap |-> \E u \in Threads \ {t} : t_pc[u].at \in {"merge", "read"}]]
            /\ UNCHANGED <<heap, t_dict>>
       ELSE \E r \in {AllocDefaults(heap, <<>>, default_params(t_pops[t]), tables, 1)} :
            /\ heap' = r.h
            /\ t_dict' = [t_dict EXCEPT ![t] = r.d]
            /\ t_pc' = [t_pc EXCEPT ![t] =
                  [at |-> IF t_args[t].none THEN "read" ELSE "merge", i |-> 1,
                   overlap |-> \E u \in Threads \ {t} : t_pc[u].at \in {"merge", "read"}]]
            /\ UNCHANGED t_ret
    /\ UNCHANGED <<populations, spectrum, fitVars, mergeVars, seedVars,
                   tables, t_pops, t_args, mlVars>>

\* update_params(dp, params), lines 38-44, for the one key of params: the
\* i-th turn of the inner loop, one write to p_old[k]
TUpdateParams(t) ==
    /\ At(t, "merge")
    /\ LET k == t_args[t].d[1][1]
           vals == t_args[t].d[1][2]
           i == t_pc[t].i
       IN  IF ~HasKey(t_dict[t], k)
           THEN /\ t_ret' = [t_ret EXCEPT ![t] =
                       [err |-> "KeyError", d |-> Deref(heap, t_dict[t])]]
                /\ Goto(t, "done", 0)
                /\ UNCHANGED heap
           ELSE IF i > Len(vals)
           THEN /\ Goto(t, "read", 0)
                /\ UNCHANGED <<heap, t_ret>>
           ELSE /\ heap' = IF i <= Len(heap[Get(t_dict[t], k)])
                           THEN [heap EXCEPT ![Get(t_dict[t], k)][i] = vals[i]]
                           ELSE heap
                /\ Goto(t, "merge", i + 1)
                /\ UNCHANGED t_ret
    /\ UNCHANGED <<populations, spectrum, fitVars, mergeVars, seedVars,
                   tables, t_pops, t_args, t_dict, mlVars>>

\* lines 130-133: the merged params as evaluate and lmfit_params read them
TRead(t) ==
    /\ At(t, "read")
    /\ t_ret' = [t_ret EXCEPT ![t] = [err |-> "", d |-> Deref(heap, t_dict[t])]]
    /\ Goto(t, "done", 0)
    /\ UNCHANGED <<populations, spectrum, fitVars, mergeVars, seedVars,
                   heap, tables, t_pops, t_args, t_dict, mlVars>>

InitConc ==
    /\ populations = [k \in {population_keys[n] : n \in 1..Len(population_keys)}
                        |-> None]
    /\ spectrum = TheSpectrum
    /\ pc = "idle"
    /\ call = NoCall
    /\ args = NoCallArgs
    /\ params = <<>>
    /\ obj_init = None
    /\ lmf_params = <<>>
    /\ lmf_res = NoRes
    /\ ret = NoRet
    /\ events = <<>>
    /\ up_base = <<>>
    /\ up_new = <<>>
    /\ up_ret = [err |-> "", d |-> <<>>]
    /\ seed_in = NoArg
    /\ seed_obj = NoArg
    /\ pk_idx = <<>>
    /\ pk_conf = <<>>
    /\ conf_idx = <<>>
    /\ seed_ret = <<>>
    /\ heap = <<>>
    /\ tables = ModuleTables
    /\ t_pops \in [Threads -> ConcPops]
    /\ t_args \in [Threads -> ConcArgs]
    /\ t_pc = [t \in Threads |-> [at |-> "start", i |-> 0, overlap |-> FALSE]]
    /\ t_dict = [t \in Threads |-> <<>>]
    /\ t_ret = [t \in Threads |-> [err |-> "", d |-> <<>>]]
    /\ NoModels

NextConc == \E t \in Threads : TDefaultParams(t) \/ TUpdateParams(t) \/ TRead(t)

SpecConc == InitConc /\ [][NextConc]_vars

-----------------------------------------------------------------------------
(* saxs_models.check_labels                                                *)

MaxRows == 2      \* most rows of a dataframe of labels

\* the values of a label column: None where the record had no such
\* population, else False or True
LabelValues == {None, Some(PyFalse), Some(PyTrue)}
BoolLabels == {Some(PyFalse), Some(PyTrue)}

LabelRows ==
    [unidentified : LabelValues, spherical_normal : LabelValues,
     guinier_porod : BoolLabels, diffraction_peaks : BoolLabels]

\* dataframe[l].unique(): the different values of the column, None among them
unique(rows, l) == {rows[n][l] : n \in 1..Len(rows)}

\* dataframe[dataframe['unidentified']==False]
IdentifiedRows(rows) == SelectSeq(rows, LAMBDA r : r.unidentified = Some(PyFalse))

check_labels(rows) ==
    [l \in {"unidentified", "spherical_normal", "guinier_porod",
            "diffraction_peaks"} |->
        IF l = "unidentified"
        THEN Cardinality(unique(rows, l)) = 2
        ELSE Cardinality(unique(IdentifiedRows(rows), l)) = 2]

CheckLabels ==
    /\ DOMAIN possible_models = {}
    /\ possible_models' = check_labels(dataframe)
    /\ UNCHANGED <<populations, spectrum, fitVars, mergeVars, seedVars,
                   concVars, ctorVars, dataframe, cvVars, pifVars, regVars,
                   trainVars>>

InitLabels ==
    /\ NoFitter
    /\ spectrum = TheSpectrum
    /\ NoCtor
    /\ dataframe \in UNION {[1..n -> LabelRows] : n \in 0..MaxRows}
    /\ possible_models = <<>>
    /\ NoFolds
    /\ NoPifs
    /\ NoRegressor
    /\ NoTraining

NextLabels == CheckLabels

SpecLabels == InitLabels /\ [][NextLabels]_vars

-----------------------------------------------------------------------------
(* saxs_models.testing_by_experiments, testing_by_experiments_regression   *)

MaxExps == 4      \* most rows, and most experiment ids, of a dataframe

\* df.experiment_id.unique(): the ids in the order of their first row
RECURSIVE UniqueIds(_)
UniqueIds(rows) ==
    IF rows = <<>> THEN <<>>
    ELSE LET front == UniqueIds(SubSeq(rows, 1, Len(rows) - 1))
             last == rows[Len(rows)].experiment_id
         IN  IF \E n \in 1..Len(front) : front[n] = last
             THEN front ELSE Append(front, last)

\* range(a, b)
Range(a, b) == [k \in 1..(IF b > a THEN b - a ELSE 0) |-> a + k - 1]

\* a loop over every index after i, i itself included
InnerRange_FromI(i, n) == Range(i, n)

\* range(i+1, len(experiments))
InnerRange(i, n) == Range(i + 1, n)

\* the (i, j) of the two nested loops, in the order they are run
RECURSIVE LoopPairs(_, _)
LoopPairs(i, n) ==
    IF i >= n THEN <<>>
    ELSE [k \in 1..Len(InnerRange(i, n)) |-> <<i, InnerRange(i, n)[k]>>]
             \o LoopPairs(i + 1, n)

\* the index of a dataframe: the numbers of its rows
RowNumbers(rows) == [n \in 1..Len(rows) |-> n]

\* tr and test of the fold (i, j); experiments[i] is the i+1-th of the list
TrainRows(rows, experiments, i, j) ==
    SelectSeq(RowNumbers(rows),
              LAMBDA n : /\ rows[n].experiment_id # experiments[i + 1]
                         /\ rows[n].experiment_id # experiments[j + 1])

TestRows(rows, experiments, i, j) ==
    SelectSeq(RowNumbers(rows),
              LAMBDA n : \/ rows[n].experiment_id = experiments[i + 1]
                         \/ rows[n].experiment_id = experiments[j + 1])

\* the score of a model fitted on tr and scored on test: any function of
\* the two sets of rows, here of the rows' numbers
FoldScore(tr, test) ==
    2 * ((SumSeq(test) * 130000 + SumSeq(tr) * 70000 + Len(test) * 10000)
            % 500001)

\* test_score for the classifier, test_score/label_std for the regressor
FoldEntry(c, tr, test) ==
    IF c.op = "testing_by_experiments" THEN FoldScore(tr, test)
    ELSE (FoldScore(tr, test) * 1000) \div (c.label_std[1] \div 1000)

\* one pass of the inner loop body; fitting on no rows raises in sklearn
Fold ==
    /\ cv_call.op # ""
    /\ acc = None
    /\ \E experiments \in {UniqueIds(df)} :
       \E pairs \in {LoopPairs(0, Len(experiments))} :
          /\ Len(test_scores_by_ex) < Len(pairs)
          /\ \E ij \in {pairs[Len(test_scores_by_ex) + 1]} :
             \E tr \in {TrainRows(df, experiments, ij[1], ij[2])} :
             \E test \in {TestRows(df, experiments, ij[1], ij[2])} :
                /\ loop_ij' = ij
                /\ folds' = Append(folds, [tr |-> tr, test |-> test])
                /\ IF tr = <<>>
                   THEN /\ acc' = Some([err |-> "ValueError", num |-> 0,
                                        den |-> 0])
                        /\ UNCHANGED test_scores_by_ex
                   ELSE /\ test_scores_by_ex' =
                               Append(test_scores_by_ex,
                                      FoldEntry(cv_call, tr, test))
                        /\ UNCHANGED acc
    /\ UNCHANGED <<populations, spectrum, fitVars, mergeVars, seedVars,
                   concVars, ctorVars, labelVars, cv_call, df, pifVars,
                   regVars, trainVars>>

\* acc = sum(test_scores_by_ex)/count, a quotient kept as num/den
FoldMean ==
    /\ cv_call.op # ""
    /\ acc = None
    /\ Len(test_scores_by_ex) = Len(LoopPairs(0, Len(UniqueIds(df))))
    /\ acc' = IF Len(test_scores_by_ex) = 0
              THEN Some([err |-> "ZeroDivisionError", num |-> 0, den |-> 0])
              ELSE Some([err |-> "", num |-> SumSeq(test_scores_by_ex),
                         den |-> Len(test_scores_by_ex)])
    /\ UNCHANGED <<populations, spectrum, fitVars, mergeVars, seedVars,
                   concVars, ctorVars, labelVars, cv_call, df, loop_ij,
                   folds, test_scores_by_ex, pifVars, regVars, trainVars>>

ExperimentRows == [experiment_id : 1..MaxExps]

CvCalls ==
    {[op |-> "testing_by_experiments", label_std |-> None]}
        \cup {[op |-> "testing_by_experiments_regression",
               label_std |-> Some(v)] : v \in {1000000, 2000000}}

InitFolds ==
    /\ NoFitter
    /\ spectrum = TheSpectrum
    /\ NoCtor
    /\ NoLabels
    /\ cv_call \in CvCalls
    /\ df \in UNION {[1..n -> ExperimentRows] : n \in 0..MaxExps}
    /\ loop_ij = <<0, 0>>
    /\ folds = <<>>
    /\ test_scores_by_ex = <<>>
    /\ acc = None
    /\ NoPifs
    /\ NoRegressor
    /\ NoTraining

NextFolds == Fold \/ FoldMean

SpecFolds == InitFolds /\ [][NextFolds]_vars

-----------------------------------------------------------------------------
(* SaxsFitter(q_I, populations, dI)                                        *)

MaxPts == 3       \* most points of a spectrum

\* intensities of a measured spectrum: negative, zero and positive
IVals == {0 - 3, 0, 1, 9}

\* error estimates a caller supplies, a zero among them
DIVals == {0, 2}

\* the fitter before __init__ has run
NotConstructed == [q |-> <<>>, I |-> <<>>, idx_fit |-> <<>>, logI |-> <<>>,
                   dI |-> <<>>]

Construct ==
    /\ spectrum = NotConstructed
    /\ spectrum' = SaxsFitterInit(q_I_arg.q, q_I_arg.I, dI_arg)
    /\ UNCHANGED <<populations, fitVars, mergeVars, seedVars, concVars, mlVars>>

InitCtor ==
    /\ NoFitter
    /\ spectrum = NotConstructed
    /\ \E n \in 1..MaxPts :
          /\ q_I_arg \in [q : {[j \in 1..n |-> 100000 * j - 50000]},
                          I : [1..n -> IVals]]
          /\ dI_arg \in {None} \cup {Some(d) : d \in [1..n -> DIVals]}
    /\ NoLabels
    /\ NoFolds
    /\ NoPifs
    /\ NoRegressor
    /\ NoTraining

NextCtor == Construct

SpecCtor == InitCtor /\ [][NextCtor]_vars

-----------------------------------------------------------------------------
(* saxs_models.get_pifs_from_Citrination                                   *)

MaxSets == 2      \* most datasets in dataset_id_list
MaxRecs == 3      \* most records of a dataset
PageSize == 2     \* the `size` of a query, 100 in the source
MaxSearches == 9  \* the client answers no more requests than this

\* the r-th record of dataset d as the client returns it
Hit(d, r) == [system |-> <<d, r>>]

\* client.search(query): the next page of the dataset, and past its last
\* record the end signal of this client, hits = None or an empty list
search(ends, sets, qry) ==
    IF qry.from_index >= sets[qry.dataset]
    THEN [hits |-> IF ends = "none" THEN None ELSE Some(<<>>)]
    ELSE LET last == IF qry.from_index + PageSize < sets[qry.dataset]
                     THEN qry.from_index + PageSize ELSE sets[qry.dataset]
         IN  [hits |-> Some([r \in 1..(last - qry.from_index) |->
                                Hit(qry.dataset, qry.from_index + r)])]

\* lines 634-643: the head of the for loop, a new query and its first search
PifQuery(d) ==
    /\ n_search < MaxSearches
    /\ query' = [dataset |-> d, from_index |-> 0]
    /\ current_result' = search(client_end, datasets, query')
    /\ n_search' = n_search + 1
    /\ pif_pc' = "while"
    /\ UNCHANGED <<all_hits, pifs>>

\* the loops and the return, one step per test of the while condition
GetPifs ==
    /\ \/ /\ pif_pc = "idle"
          /\ IF Len(datasets) = 0
             THEN /\ pif_pc' = "done"
                  /\ pifs' = [n \in 1..Len(all_hits) |-> all_hits[n].system]
                  /\ UNCHANGED <<n_search, query, current_result, all_hits>>
             ELSE PifQuery(1)
       \/ /\ pif_pc = "while"
          /\ current_result.hits # None
          /\ n_search < MaxSearches
          /\ all_hits' = all_hits \o current_result.hits[1]
          /\ query' = [query EXCEPT
                          !.from_index = @ + Len(current_result.hits[1])]
          /\ current_result' = search(client_end, datasets, query')
          /\ n_search' = n_search + 1
          /\ UNCHANGED <<pif_pc, pifs>>
       \/ /\ pif_pc = "while"
          /\ current_result.hits = None
          /\ IF query.dataset < Len(datasets)
             THEN PifQuery(query.dataset + 1)
             ELSE /\ pif_pc' = "done"
                  /\ pifs' = [n \in 1..Len(all_hits) |-> all_hits[n].system]
                  /\ UNCHANGED <<n_search, query, current_result, all_hits>>
    /\ UNCHANGED <<populations, spectrum, fitVars, mergeVars, seedVars,
                   concVars, ctorVars, labelVars, cvVars, datasets, client_end,
                   regVars, trainVars>>

InitPifs ==
    /\ NoFitter
    /\ spectrum = TheSpectrum
    /\ NoCtor
    /\ NoLabels
    /\ NoFolds
    /\ datasets \in UNION {[1..n -> 0..MaxRecs] : n \in 0..MaxSets}
    /\ client_end \in {"none", "empty"}
    /\ n_search = 0
    /\ pif_pc = "idle"
    /\ query = [dataset |-> 0, from_index |-> 0]
    /\ current_result = [hits |-> None]
    /\ all_hits = <<>>
    /\ pifs = <<>>
    /\ NoRegressor
    /\ NoTraining

NextPifs == GetPifs

SpecPifs == InitPifs /\ [][NextPifs]_vars

-----------------------------------------------------------------------------
(* SaxsRegressor(yml_file)                                                 *)

\* the names of the regression models a file of train_regressors holds
RegressorNames == {"r0_sphere", "sigma_sphere", "rg_gp"}

\* the parameters stored under a name: None, or the attributes of the
\* scaler or the model trained for that name
StoredParams(name, part) == Some(<<name, part>>)

\* one entry per name, in the order reg_models_dict.keys() gives them
FileContents ==
    {f \in [1..Cardinality(RegressorNames) ->
               [name : RegressorNames, trained : BOOLEAN]] :
        \A i, j \in DOMAIN f : i # j => f[i].name # f[j].name}

\* OrderedDict.fromkeys(keys)
fromkeys(keys) == [k \in keys |-> None]

\* d[k] = v for a dict kept as a function
SetItem(d, k, v) == [x \in DOMAIN d \cup {k} |-> IF x = k THEN v ELSE d[x]]

\* StandardScaler() or SGDRegressor() after set_param(m_s, param)
set_param(class, param) == [class |-> class, attrs |-> param]

\* lines 24-25
SaxsRegressorInit ==
    /\ reg_pc = 0
    /\ models' = fromkeys(DOMAIN parameter_keys)
    /\ scalers' = fromkeys(DOMAIN parameter_keys)
    /\ reg_pc' = 1
    /\ UNCHANGED <<s_and_m, reg_err, reg_m, reg_s>>
    /\ UNCHANGED <<populations, spectrum, fitVars, mergeVars, seedVars,
                   concVars, ctorVars, labelVars, cvVars, pifVars, trainVars>>

\* lines 27-36 for one model_name: the two assignments after the `if` read
\* the locals m and s, bound or not
SaxsRegressorName ==
    /\ reg_pc \in 1..Len(s_and_m)
    /\ reg_err = ""
    /\ LET model_name == s_and_m[reg_pc].name
           model_params == IF s_and_m[reg_pc].trained
                           THEN StoredParams(model_name, "model") ELSE None
           scaler_params == IF s_and_m[reg_pc].trained
                            THEN StoredParams(model_name, "scaler") ELSE None
           new_s == IF scaler_params # None
                    THEN Bound(set_param("StandardScaler", scaler_params[1]))
                    ELSE reg_s
           new_m == IF scaler_params # None
                    THEN Bound(set_param("SGDRegressor", model_params[1]))
                    ELSE reg_m
       IN  /\ reg_s' = new_s
           /\ reg_m' = new_m
           /\ IF ~new_m.bound
              THEN /\ reg_err' = "UnboundLocalError"
                   /\ UNCHANGED <<models, scalers, reg_pc>>
              ELSE /\ models' = SetItem(models, model_name, Some(new_m.obj))
                   /\ scalers' = SetItem(scalers, model_name, Some(new_s.obj))
                   /\ reg_pc' = reg_pc + 1
                   /\ UNCHANGED reg_err
    /\ UNCHANGED s_and_m
    /\ UNCHANGED <<populations, spectrum, fitVars, mergeVars, seedVars,
                   concVars, ctorVars, labelVars, cvVars, pifVars, trainVars>>

InitRegressor ==
    /\ NoFitter
    /\ spectrum = TheSpectrum
    /\ NoCtor
    /\ NoLabels
    /\ NoFolds
    /\ NoPifs
    /\ s_and_m \in FileContents
    /\ reg_pc = 0
    /\ reg_err = ""
    /\ reg_m = Unbound
    /\ reg_s = Unbound
    /\ models = <<>>
    /\ scalers = <<>>
    /\ NoTraining

NextRegressor == SaxsRegressorInit \/ SaxsRegressorName

SpecRegressor == InitRegressor /\ [][NextRegressor]_vars

-----------------------------------------------------------------------------
(* saxs_models.train_regressors, train_classifiers                         *)

MaxCalls == 3     \* most calls of the training functions in one process

\* features.extend(more) for a `features` that is the list object stored
\* under profile_keys['unidentified']: the stored list grows
ExtendBase(pk, key) ==
    Put(pk, "unidentified", Get(pk, "unidentified") \o Get(pk, key))

\* lines 234-276: the module-level dict after each of the three blocks and
\* the list handed to train() in each, None for a model that is not trained
RegressorBlocks(pk, pm) ==
    LET pk1 == IF pm.sigma_sphere THEN ExtendBase(pk, "spherical_normal") ELSE pk
        pk2 == IF pm.rg_gp THEN ExtendBase(pk1, "guinier_porod") ELSE pk1
    IN  [profile_keys |-> pk2,
         features |->
            [r0_sphere    |-> IF pm.r0_sphere
                              THEN Some(Get(pk, "unidentified")) ELSE None,
             sigma_sphere |-> IF pm.sigma_sphere
                              THEN Some(Get(pk1, "unidentified")) ELSE None,
             rg_gp        |-> IF pm.rg_gp
                              THEN Some(Get(pk2, "unidentified")) ELSE None]]

\* train_regressors(all_data) for the possible_models that
\* check_labels_regression finds in all_data
TrainRegressors ==
    /\ train_pc < MaxCalls
    /\ \E pm \in [r0_sphere : BOOLEAN, sigma_sphere : BOOLEAN, rg_gp : BOOLEAN] :
       \E done \in {RegressorBlocks(profile_keys, pm)} :
          /\ profile_keys' = done.profile_keys
          /\ trained' = Append(trained, [fn |-> "train_regressors",
                                         features |-> done.features])
    /\ train_pc' = train_pc + 1
    /\ UNCHANGED <<populations, spectrum, fitVars, mergeVars, seedVars,
                   concVars, ctorVars, labelVars, cvVars, pifVars, regVars>>

\* train_classifiers(all_data): line 46, the feature list of every classifier
TrainClassifiers ==
    /\ train_pc < MaxCalls
    /\ trained' = Append(trained,
                      [fn |-> "train_classifiers",
                       features |-> [k \in {"classifiers"} |->
                                        Some(Get(profile_keys, "unidentified"))]])
    /\ train_pc' = train_pc + 1
    /\ UNCHANGED profile_keys
    /\ UNCHANGED <<populations, spectrum, fitVars, mergeVars, seedVars,
                   concVars, ctorVars, labelVars, cvVars, pifVars, regVars>>

\* predict_params: the keys of the feature vector each model is applied to
predict_params_features(name) ==
    IF name = "r0_sphere" THEN Get(saxs_math_profile_keys, "unidentified")
    ELSE IF name = "sigma_sphere"
    THEN Get(saxs_math_profile_keys, "unidentified")
            \o Get(saxs_math_profile_keys, "spherical_normal")
    ELSE Get(saxs_math_profile_keys, "unidentified")
            \o Get(saxs_math_profile_keys, "guinier_porod")

InitTrain ==
    /\ NoFitter
    /\ spectrum = TheSpectrum
    /\ NoCtor
    /\ NoLabels
    /\ NoFolds
    /\ NoPifs
    /\ NoRegressor
    /\ profile_keys = saxs_math_profile_keys
    /\ train_pc = 0
    /\ trained = <<>>

NextTrain == TrainRegressors \/ TrainClassifiers

SpecTrain == InitTrain /\ [][NextTrain]_vars

-----------------------------------------------------------------------------
(* Properties *)

\* the entries (key, index) of a dict, index from 1
Entries(d) == UNION {{<<d[n][1], i>> : i \in 1..Len(d[n][2])} : n \in 1..Len(d)}

Given(a, k, i) == ~a.none /\ <<k, i>> \in Entries(a.d)

\* the value the caller's params and the defaults give a slot of the schema
InitialValue(k, i) ==
    IF Given(args.params, k, i) THEN Get(args.params.d, k)[i]
    ELSE Get(param_defaults, k)

Logged(e) == \E n \in 1..Len(events) : events[n] = e

\* C1: with a truthy `unidentified` count, fit() returns two empty dicts
\* whatever its arguments, having evaluated no objective and run no optimizer.
C1_UnidentifiedSkips ==
    TruthyCount(populations["unidentified"]) =>
        /\ pc \in {"idle", "SKIPPED"}
        /\ pc = "SKIPPED" =>
              /\ ret = Return(<<>>, <<>>)
              /\ ~Logged("evaluate") /\ ~Logged("lmf_evaluate")
              /\ ~Logged("minimize")
              /\ obj_init = None /\ lmf_params = <<>> /\ lmf_res = NoRes

C1_Witness ==
    /\ pc = "SKIPPED"
    /\ ~args.params.none /\ ~args.fixed_params.none /\ ~args.param_limits.none
    /\ ~args.error_weighted

\* C2: when every key of the override is a key of base, update_params
\* keeps base's keys, their order and the length of every list; an entry
\* the override covers holds the override's value, every other entry its
\* old value (so the override's values past the end of a list are dropped).
C2_MergeKeepsShape ==
    (up_base # <<>> /\ KeySet(up_new) \subseteq KeySet(up_base)) =>
        /\ up_ret.err = ""
        /\ Keys(up_ret.d) = Keys(up_base)
        /\ \A n \in 1..Len(up_base) :
              /\ Len(up_ret.d[n][2]) = Len(up_base[n][2])
              /\ \A i \in 1..Len(up_base[n][2]) :
                    up_ret.d[n][2][i] =
                        IF <<up_base[n][1], i>> \in Entries(up_new)
                        THEN Get(up_new, up_base[n][1])[i]
                        ELSE up_base[n][2][i]

\* an override that is longer than base's list for one key, and a second
\* key of base that the override does not name
C2_Witness ==
    /\ up_base # <<>> /\ up_new # <<>>
    /\ KeySet(up_new) \subseteq KeySet(up_base)
    /\ KeySet(up_new) # KeySet(up_base)
    /\ \E k \in KeySet(up_new) : Len(Get(up_new, k)) > Len(Get(up_base, k))
    /\ up_ret.err = ""

\* the override without the keys that base does not have
Restricted(o, b) == SelectSeq(o, LAMBDA e : HasKey(b, e[1]))

\* C3: update_params ignores a key that only the override has: no error,
\* no new key in base, and the result of the call without that key.
C3_ForeignKeysIgnored ==
    up_base # <<>> =>
        /\ up_ret.err = ""
        /\ KeySet(up_ret.d) = KeySet(up_base)
        /\ up_ret.d = update_params(up_base, Restricted(up_new, up_base)).d

C5_FixedValuesWin ==
    pc = "REPORTED" =>
        \A e \in Entries(ret.p_opt) :
            Given(args.fixed_params, e[1], e[2]) =>
                /\ ~Slot(lmf_params, SlotName(e[1], e[2] - 1)).vary
                /\ Get(ret.p_opt, e[1])[e[2]] = Get(args.fixed_params.d, e[1])[e[2]]

SchemaKeys == {param_defaults[n][1] : n \in 1..Len(param_defaults)}
SlotNamesDistinct ==
    \A k1 \in SchemaKeys : \A k2 \in SchemaKeys :
    \A i1 \in 0..(10 + MaxCount) : \A i2 \in 0..(10 + MaxCount) :
        SlotName(k1, i1) = SlotName(k2, i2) => (k1 = k2 /\ i1 = i2)

\* C7: two different (key, index) pairs never get the same slot name, so
\* the flat vector of a fit has one slot per entry of the parameter dict,
\* and the slot read back under the name of (key, index) holds that entry.
C7_SlotNames ==
    /\ SlotNamesDistinct
    /\ pc = "OPTIMIZING" =>
          /\ Len(lmf_params) = Cardinality(Entries(params))
          /\ \A e \in Entries(params) :
                /\ HasSlot(lmf_params, SlotName(e[1], e[2] - 1))
                /\ Slot(lmf_params, SlotName(e[1], e[2] - 1)).value
                      = Get(params, e[1])[e[2]]

\* a flat vector with two slots of one key
C7_Witness ==
    /\ pc = "OPTIMIZING"
    /\ \E k \in SchemaKeys :
          HasSlot(lmf_params, SlotName(k, 0)) /\ HasSlot(lmf_params, SlotName(k, 1))

\* the count of a population, 0 when unset
CountOf(pops, p) == IF pops[p] = None THEN 0 ELSE pops[p][1]
PopSet == {population_keys[n] : n \in 1..Len(population_keys)}
OwnedKeys(p) == {parameter_keys[p][n] : n \in 1..Len(parameter_keys[p])}

\* C8: default_params() is empty when `unidentified` is set; otherwise it
\* holds I0_floor once and, for every population of count n > 0, each of
\* its keys n times at the key's default, and no key of a population of
\* count 0.
C8_Defaults ==
    LET pd == default_params(populations)
    IN  IF CountOf(populations, "unidentified") > 0 THEN pd = <<>>
        ELSE /\ HasKey(pd, "I0_floor")
             /\ Get(pd, "I0_floor") = <<Get(param_defaults, "I0_floor")>>
             /\ \A p \in PopSet : \A k \in OwnedKeys(p) :
                   IF CountOf(populations, p) > 0
                   THEN /\ HasKey(pd, k)
                        /\ Get(pd, k) = [i \in 1..CountOf(populations, p) |->
                                            Get(param_defaults, k)]
                   ELSE ~HasKey(pd, k)
             /\ KeySet(pd) \subseteq {"I0_floor"} \cup UNION {OwnedKeys(p) : p \in PopSet}
             /\ Len(pd) = Cardinality(KeySet(pd))

\* a fit started from the defaults of a spec with a population of two and a
\* population of none
C8_Witness ==
    /\ pc = "OPTIMIZING" /\ args.params.none
    /\ params = default_params(populations)
    /\ \E p \in PopSet : CountOf(populations, p) = 2
    /\ \E p \in PopSet \ {"unidentified"} : CountOf(populations, p) = 0

\* C9: with a diffraction_peaks count > 0 the peak seeder has run by the
\* time the optimizer starts; with a count of 0 it has not run.
C9_SeededBeforeOptimizing ==
    pc = "OPTIMIZING" =>
        (Logged("estimate_peak_params")
            <=> CountOf(populations, "diffraction_peaks") > 0)

ReportEntry(rpt, k) == Get(rpt, k)

\* C10: the report of a fit that ran holds exactly success,
\* initial_objective, final_objective and fit_snr; initial_objective is
\* the objective at the merged initial parameters and final_objective the
\* objective at the returned p_opt, both with the caller's error_weighted.
C10_Report ==
    pc = "REPORTED" =>
        /\ Keys(ret.rpt) =
              <<"success", "initial_objective", "final_objective", "fit_snr">>
        /\ ReportEntry(ret.rpt, "initial_objective") =
              evaluate(spectrum, populations,
                       MergedParams(populations, args.params).d,
                       args.error_weighted)
        /\ ReportEntry(ret.rpt, "final_objective") =
              evaluate(spectrum, populations, ret.p_opt, args.error_weighted)

\* an unweighted fit from the caller's guess whose objective changed and
\* differs from the weighted objective at the same points
C10_Witness ==
    /\ pc = "REPORTED"
    /\ ~args.error_weighted /\ ~args.params.none
    /\ ReportEntry(ret.rpt, "initial_objective") # ReportEntry(ret.rpt, "final_objective")
    /\ ReportEntry(ret.rpt, "final_objective") #
          evaluate(spectrum, populations, ret.p_opt, TRUE)
    /\ ReportEntry(ret.rpt, "initial_objective") #
          evaluate(spectrum, populations, params, TRUE)

\* C11: a fit whose optimizer ended without converging does not raise: it
\* returns a (p_opt, report) pair whose report has success false and holds
\* initial_objective, final_objective and fit_snr.
C11_NonConvergenceReported ==
    (Logged("minimize") /\ ~lmf_res.success) =>
        /\ pc \in {"optimized", "REPORTED"}
        /\ pc = "REPORTED" =>
              /\ ret.kind = "return"
              /\ ret.p_opt = saxskit_params(populations, lmf_res.params).d
              /\ ReportEntry(ret.rpt, "success") = FALSE
              /\ \A k \in {"initial_objective", "final_objective", "fit_snr"} :
                    HasKey(ret.rpt, k)

\* a fit that did not converge although the optimizer moved a slot
C11_Witness ==
    /\ pc = "REPORTED" /\ Logged("minimize") /\ ~lmf_res.success
    /\ ret.p_opt # params
    /\ HasKey(ret.rpt, "fit_snr")

Shape(d) == {<<d[n][1], Len(d[n][2])>> : n \in 1..Len(d)}

\* C13: the p_opt that fit(params, ...) returns has the keys of the params
\* dict the caller passed and, for every key, as many entries.
C13_ShapeOfInput ==
    (pc = "REPORTED" /\ ~call.passed.params.none) =>
        Shape(ret.p_opt) = Shape(call.passed.params.d)

\* the fitter with other data at the points outside the fit mask
OutsideChanged(self) ==
    [self EXCEPT
        !.q    = [j \in 1..Len(self.q) |->
                     IF self.idx_fit[j] THEN self.q[j] ELSE self.q[j] + 50000],
        !.logI = [j \in 1..Len(self.q) |->
                     IF self.idx_fit[j] THEN self.logI[j] ELSE Some(3)],
        !.dI   = [j \in 1..Len(self.q) |->
                     IF self.idx_fit[j] THEN self.dI[j] ELSE Some(1)]]

\* C14: the objective that fit() evaluates at its merged params, weighted
\* or not, is a number >= 0 (not NaN); it is 0 when the modeled intensity
\* equals the measured one at every point of the fit mask; and it is the
\* same whatever the data at the points outside the mask.
C14_Objective ==
    obj_init # None =>
        LET obj == obj_init[1]
            I_comp == compute_saxs(spectrum.q, populations, params)
        IN  /\ obj # None
            /\ obj[1] >= 0
            /\ (\A j \in 1..Len(I_comp) :
                    spectrum.idx_fit[j] => I_comp[j] = spectrum.I[j])
                  => obj[1] = 0
            /\ obj = evaluate(OutsideChanged(spectrum), populations, params,
                              args.error_weighted)

Min(a, b) == IF a < b THEN a ELSE b

\* C15: with a diffraction_peaks count > 0, estimate_peak_params returns
\* q_pkcenter, I_pkcenter and pk_hwhm with one and the same length: the
\* count, or the number of candidates of the window scan when that is
\* smaller; every value comes from the spectrum, none from the lists the
\* params passed in held.
C15_ParallelPeakLists ==
    (pc = "seeded" /\ TruthyCount(populations["diffraction_peaks"])) =>
        LET n == Min(populations["diffraction_peaks"][1], Len(pk_idx))
        IN  /\ \A k \in {"q_pkcenter", "I_pkcenter", "pk_hwhm"} :
                  HasKey(seed_ret, k) /\ Len(Get(seed_ret, k)) = n
            /\ \A m \in 1..Len(Get(seed_ret, "q_pkcenter")) :
                  \E j \in 1..Len(spectrum.q) :
                      /\ Get(seed_ret, "q_pkcenter")[m] = spectrum.q[j]
                      /\ Get(seed_ret, "I_pkcenter")[m] * 10 = spectrum.I[j] * 1000000
                      /\ Get(seed_ret, "pk_hwhm")[m] = HalfWidth(spectrum, j)

\* two peaks asked for, one candidate found, two old values passed in
C15_Witness ==
    /\ pc = "seeded"
    /\ populations["diffraction_peaks"] = Some(2)
    /\ Len(pk_idx) = 1
    /\ ~seed_in.none /\ HasKey(seed_in.d, "q_pkcenter")
    /\ Len(Get(seed_in.d, "q_pkcenter")) = 2
    /\ Len(Get(seed_ret, "q_pkcenter")) = 1

\* C16: the k-th seeded peak comes from a candidate of the k-th highest
\* confidence (different peaks from different candidates): q_pkcenter is q
\* at the candidate's index and I_pkcenter a tenth of I there; no candidate
\* left out has a higher confidence than a seeded one.
C16_BestCandidatesFirst ==
    (pc = "seeded" /\ TruthyCount(populations["diffraction_peaks"])) =>
        LET qs == Get(seed_ret, "q_pkcenter")
            Is == Get(seed_ret, "I_pkcenter")
            cands == 1..Len(pk_idx)
            Above(v) == Cardinality({c \in cands : pk_conf[c] > v})
            AtLeast(v) == Cardinality({c \in cands : pk_conf[c] >= v})
        IN  /\ Len(qs) = Len(Is)
            /\ \E pick \in [1..Len(qs) -> cands] :
                  /\ \A k1, k2 \in 1..Len(qs) : pick[k1] = pick[k2] => k1 = k2
                  /\ \A k \in 1..Len(qs) :
                        /\ qs[k] = spectrum.q[pk_idx[pick[k]]]
                        /\ Is[k] * 10 = spectrum.I[pk_idx[pick[k]]] * 1000000
                        /\ Above(pk_conf[pick[k]]) < k
                        /\ k <= AtLeast(pk_conf[pick[k]])
                  /\ \A c \in cands :
                        (\A k \in 1..Len(qs) : pick[k] # c) =>
                            \A k \in 1..Len(qs) : pk_conf[c] <= pk_conf[pick[k]]

\* the scan found the better candidate last, and only one peak is asked for
C16_Witness ==
    /\ pc = "seeded"
    /\ populations["diffraction_peaks"] = Some(1)
    /\ Len(pk_idx) = 2 /\ pk_conf[1] < pk_conf[2]
    /\ Get(seed_ret, "q_pkcenter") = <<spectrum.q[pk_idx[2]]>>
    /\ Get(seed_ret, "I_pkcenter") = <<(spectrum.I[pk_idx[2]] * 1000000) \div 10>>

C19_ResultIsValidGuess ==
    call.prev # None =>
        /\ call.passed.params = Arg(call.prev[1])
        /\ pc # "raised"
        /\ pc \in {"SKIPPED", "REPORTED"} =>
              /\ ret.kind = "return"
              /\ Keys(ret.p_opt) = Keys(call.prev[1])
              /\ Shape(ret.p_opt) = Shape(call.prev[1])
        /\ pc \in {"OPTIMIZING", "optimized", "REPORTED"} => params = call.prev[1]

\* a link of a chain: fit(p) for a returned p that is not the defaults and
\* has two entries under one key, with a result that differs from p
C19_Witness ==
    /\ pc = "REPORTED" /\ call.prev # None
    /\ \E n \in 1..Len(ret.p_opt) : Len(ret.p_opt[n][2]) = 2
    /\ ret.p_opt # call.prev[1]
    /\ call.prev[1] # default_params(populations)

\* the spec with 0 in the place of every unset count
UnsetAsZero(pops) == [k \in DOMAIN pops |-> IF pops[k] = None THEN Some(0) ELSE pops[k]]

\* C20: for a population spec whose unset counts are None and that has a
\* positive count, None counts as 0: fit() does not return early for the
\* unset `unidentified`; default_params() is what it is with 0 for None,
\* with I0_floor and the keys of exactly the populations of positive count;
\* and fit() without arguments raises nothing.
C20_UnsetCounts ==
    (/\ populations["unidentified"] = None
     /\ \E p \in PopSet : CountOf(populations, p) > 0) =>
        /\ pc # "SKIPPED"
        /\ default_params(populations) = default_params(UnsetAsZero(populations))
        /\ KeySet(default_params(populations)) =
              {"I0_floor"} \cup
              UNION {OwnedKeys(p) : p \in {pp \in PopSet : CountOf(populations, pp) > 0}}
        /\ pc \in {"OPTIMIZING", "optimized", "REPORTED"} =>
              KeySet(params) = KeySet(default_params(populations))
        /\ pc = "raised" =>
              ~(args.params.none /\ args.fixed_params.none /\ args.param_limits.none)

\* the spec of the tests, guinier_porod=1 and spherical_normal=1 over
\* fromkeys, fitted by fit()
C20_Witness ==
    /\ populations = [unidentified |-> None, guinier_porod |-> Some(1),
                      spherical_normal |-> Some(1), diffraction_peaks |-> None]
    /\ pc = "REPORTED"
    /\ args.params.none /\ args.fixed_params.none /\ args.param_limits.none

\* the list objects of a call's working dict
ListIds(d) == {d[n][2] : n \in 1..Len(d)}

\* what the call t gets when it runs alone
Alone(t) ==
    IF FitSkips(t_pops[t]) THEN [err |-> "", d |-> <<>>]
    ELSE MergedParams(t_pops[t], t_args[t])

\* C18: of two fit() calls whose steps interleave, each gets what it gets
\* alone; their working dicts have no list in common and one list per
\* key; and the module-level param_defaults and param_limits stay as
\* they are.
C18_CallsConfined ==
    /\ \A t \in DOMAIN t_pc : At(t, "done") => t_ret[t] = Alone(t)
    /\ \A t, u \in DOMAIN t_pc :
          t # u => ListIds(t_dict[t]) \cap ListIds(t_dict[u]) = {}
    /\ \A t \in DOMAIN t_pc : Cardinality(ListIds(t_dict[t])) = Len(t_dict[t])
    /\ tables = ModuleTables

\* both calls done on fitters of the same populations, the second begun
\* while the first was between its writes, each with its own values for
\* the same key
C18_Witness ==
    /\ DOMAIN t_pc = Threads
    /\ \A t \in Threads : At(t, "done") /\ ~t_args[t].none
    /\ t_pops[1] = t_pops[2]
    /\ t_args[1].d[1][1] = t_args[2].d[1][1]
    /\ t_pc[2].overlap
    /\ t_ret[1].err = "" /\ t_ret[2].err = ""
    /\ t_ret[1] # t_ret[2]
    /\ t_ret[1].d # default_params(t_pops[1])

\* the labels found in column l of the rows
LabelsFound(rows, l) == {rows[n][l] : n \in 1..Len(rows)} \ {None}

\* C21: check_labels marks a model as possible exactly when both a True and
\* a False label are found for it, `unidentified` over all rows and the
\* three others over the rows whose `unidentified` label is False.
C21_BothLabelsFound ==
    DOMAIN possible_models # {} =>
        \A l \in DOMAIN possible_models :
            possible_models[l] <=>
                LabelsFound(IF l = "unidentified" THEN dataframe
                            ELSE SelectSeq(dataframe,
                                     LAMBDA r : r.unidentified = Some(PyFalse)),
                            l) = {Some(PyFalse), Some(PyTrue)}



\* the experiment ids of the rows numbered in a list
IdsOf(rowNumbers) == {df[rowNumbers[n]].experiment_id : n \in 1..Len(rowNumbers)}

RowSet(rowNumbers) == {rowNumbers[n] : n \in 1..Len(rowNumbers)}

ExperimentIds == {df[n].experiment_id : n \in 1..Len(df)}

\* C22: for a dataframe with at least three experiment ids, every fold tests
\* on exactly the rows of two held-out experiments and trains on exactly all
\* other rows; when the call returns, every unordered pair of experiments
\* was held out exactly once, in n(n-1)/2 folds, and the value returned is
\* the arithmetic mean of the fold scores.
C22_LeaveTwoGroupsOut ==
    Cardinality(ExperimentIds) >= 3 =>
        /\ \A k \in 1..Len(folds) :
              /\ Cardinality(IdsOf(folds[k].test)) = 2
              /\ RowSet(folds[k].test) =
                     {n \in 1..Len(df) :
                         df[n].experiment_id \in IdsOf(folds[k].test)}
              /\ RowSet(folds[k].tr) = (1..Len(df)) \ RowSet(folds[k].test)
              /\ Len(folds[k].tr) + Len(folds[k].test) = Len(df)
              /\ test_scores_by_ex[k] =
                     FoldEntry(cv_call, folds[k].tr, folds[k].test)
        /\ acc # None =>
              /\ acc[1].err = ""
              /\ 2 * Len(folds) =
                     Cardinality(ExperimentIds) * (Cardinality(ExperimentIds) - 1)
              /\ \A a, b \in ExperimentIds :
                     a # b =>
                       Cardinality({k \in 1..Len(folds) :
                                       IdsOf(folds[k].test) = {a, b}}) = 1
              /\ acc[1].den = Len(folds)
              /\ acc[1].num = SumSeq(test_scores_by_ex)

C22_Witness ==
    /\ acc # None
    /\ cv_call.op = "testing_by_experiments_regression"
    /\ Cardinality(ExperimentIds) = 3
    /\ Len(df) = 4
    /\ Len(folds) = 3


\* the collaborators of a fit() that runs to its end, in the order of the
\* states: the initial objective, the optimizer, the final objective and SNR
StepsInOrder ==
    <<"default_params", "evaluate", "lmfit_params", "minimize", "lmf_evaluate",
      "saxskit_params", "lmf_evaluate", "compute_saxs">>

StepsSoFar ==
    /\ Len(events) <= Len(StepsInOrder)
    /\ \A n \in 1..Len(events) : events[n] = StepsInOrder[n]

\* C23: a fit() call of a fitter with `unidentified` set goes straight to
\* SKIPPED; every other call evaluates the initial objective before the
\* optimizer, invokes the optimizer once, computes the final objective and
\* SNR after it, in this order and with no step repeated, and ends in
\* REPORTED, never outside the two terminal states.
C23_StateOrder ==
    call.op = "fit" =>
        /\ StepsSoFar
        /\ FitSkips(populations) => (pc = "SKIPPED" /\ events = <<>>)
        /\ ~FitSkips(populations) =>
              /\ pc \in {"OPTIMIZING", "optimized", "REPORTED"}
              /\ pc = "OPTIMIZING" => (obj_init # None /\ ~Logged("minimize"))
              /\ pc = "optimized" => Len(events) = 5
              /\ pc = "REPORTED" => events = StepsInOrder


\* the slot that lmfit_params built for the entry (k, i), i from 1
SlotOf(k, i) == Slot(lmf_params, SlotName(k, i - 1))

\* whether the caller of fit() gave the argument `a` an entry for (k, i)
Passed(a, k, i) == ~a.none /\ HasKey(a.d, k) /\ i <= Len(Get(a.d, k))

C25_Constructed ==
    spectrum # NotConstructed =>
        /\ spectrum.q = q_I_arg.q /\ spectrum.I = q_I_arg.I
        /\ Len(spectrum.idx_fit) = Len(q_I_arg.I)
        /\ Len(spectrum.logI) = Len(q_I_arg.I)
        /\ \A j \in 1..Len(q_I_arg.I) :
              /\ spectrum.idx_fit[j] <=> q_I_arg.I[j] > 0
              /\ spectrum.logI[j] =
                    IF q_I_arg.I[j] > 0 THEN Some(ILog(q_I_arg.I[j])) ELSE None
        /\ dI_arg = None =>
              /\ Len(spectrum.dI) = Len(q_I_arg.I)
              /\ \A j \in 1..Len(q_I_arg.I) :
                    IF q_I_arg.I[j] > 0
                    THEN /\ spectrum.dI[j] = Some(ISqrt(q_I_arg.I[j]))
                         /\ spectrum.dI[j][1] > 0
                    ELSE spectrum.dI[j] = None
        /\ dI_arg # None => spectrum.dI = dI_arg[1]

\* a spectrum with a positive, a zero and a negative intensity and no dI
C25_Witness ==
    /\ spectrum # NotConstructed
    /\ dI_arg = None
    /\ \E i, j, k \in 1..Len(spectrum.I) :
          spectrum.I[i] > 1 /\ spectrum.I[j] = 0 /\ spectrum.I[k] < 0


\* whether the default d is inside the limits lim, the upper one admitted
\* or not
AboveLower(d, lim) == lim[1] = None \/ lim[1][1] <= d
BelowUpper(d, lim) == lim[2] = None \/ d < lim[2][1]
UpToUpper(d, lim) == lim[2] = None \/ d <= lim[2][1]

\* C26 as stated: the two module-level tables have the same keys and, for
\* every key, lower <= default and default < upper, a bound of None
\* constraining nothing.
C26_DefaultBelowUpper ==
    /\ KeySet(tables.param_defaults) = KeySet(tables.param_limits)
    /\ \A k \in KeySet(tables.param_defaults) :
          /\ AboveLower(Get(tables.param_defaults, k), Get(tables.param_limits, k))
          /\ BelowUpper(Get(tables.param_defaults, k), Get(tables.param_limits, k))

\* C26: the two module-level tables have the same keys and, for every key,
\* lower <= default <= upper, a bound of None constraining nothing; the
\* default may sit on its upper bound.
C26_DefaultWithinLimits ==
    /\ KeySet(tables.param_defaults) = KeySet(tables.param_limits)
    /\ Len(tables.param_defaults) = Cardinality(KeySet(tables.param_defaults))
    /\ Len(tables.param_limits) = Cardinality(KeySet(tables.param_limits))
    /\ \A k \in KeySet(tables.param_defaults) :
          /\ AboveLower(Get(tables.param_defaults, k), Get(tables.param_limits, k))
          /\ UpToUpper(Get(tables.param_defaults, k), Get(tables.param_limits, k))

\* the tables after two calls have read them: a default on its upper
\* bound, one on its lower bound, and a key without an upper bound
C26_Witness ==
    /\ \A t \in Threads : t_pc[t].at = "done"
    /\ \E k \in KeySet(tables.param_defaults) :
          Get(tables.param_limits, k)[2] = Some(Get(tables.param_defaults, k))
    /\ \E k \in KeySet(tables.param_defaults) :
          Get(tables.param_limits, k)[1] = Some(Get(tables.param_defaults, k))
    /\ \E k \in KeySet(tables.param_defaults) :
          Get(tables.param_limits, k)[2] = None


\* the requests that fetch a dataset of n records: its pages, and one more
\* that is answered with the end signal
Requests(n) == (n + PageSize - 1) \div PageSize + 1

\* every record of the datasets up to the d-th, in order
RECURSIVE RecordsUpTo(_)
RecordsUpTo(d) ==
    IF d = 0 THEN <<>>
    ELSE RecordsUpTo(d - 1) \o [r \in 1..datasets[d] |-> <<d, r>>]

\* C27: the call ends after the requests that fetch every dataset, whether
\* the client ends a dataset with hits = None or with an empty list; it
\* returns every record of every dataset once; after each page from_index
\* is the number of hits received for the dataset.
C27_PagesThrough ==
    /\ n_search <= SumSeq([d \in 1..Len(datasets) |-> Requests(datasets[d])])
    /\ pif_pc = "done" =>
          pifs = RecordsUpTo(Len(datasets))
    /\ pif_pc = "while" =>
          /\ Len(all_hits) =
                Len(RecordsUpTo(query.dataset - 1)) + query.from_index
          /\ \A n \in 1..Len(all_hits) :
                all_hits[n].system = RecordsUpTo(query.dataset)[n]


\* C28: construction from a file completes for every order of the names;
\* afterwards a name whose stored scaler parameters are None has no scaler
\* and no model, and every other name has the scaler and the model set up
\* from the parameters stored under that name.
C28_OwnParameters ==
    /\ reg_err = ""
    /\ reg_pc = Len(s_and_m) + 1 =>
          \A n \in 1..Len(s_and_m) :
              IF s_and_m[n].trained
              THEN /\ scalers[s_and_m[n].name] =
                        Some([class |-> "StandardScaler",
                              attrs |-> <<s_and_m[n].name, "scaler">>])
                   /\ models[s_and_m[n].name] =
                        Some([class |-> "SGDRegressor",
                              attrs |-> <<s_and_m[n].name, "model">>])
              ELSE /\ scalers[s_and_m[n].name] = None
                   /\ models[s_and_m[n].name] = None


\* C29: every call of train_regressors trains r0_sphere on the base keys,
\* sigma_sphere on the base keys and those of spherical_normal, rg_gp on the
\* base keys and those of guinier_porod, the keys predict_params uses for
\* the model; saxs_math.profile_keys stays as the module defines it, and a
\* later train_classifiers trains on the base keys.
C29_OwnFeatures ==
    /\ profile_keys = saxs_math_profile_keys
    /\ \A n \in 1..Len(trained) :
          \A name \in DOMAIN trained[n].features :
              trained[n].features[name] # None =>
                  trained[n].features[name][1] =
                      IF trained[n].fn = "train_regressors"
                      THEN predict_params_features(name)
                      ELSE Get(saxs_math_profile_keys, "unidentified")

=============================================================================
